---- MODULE Spec2Model ----
(***************************************************************************)
(* Model of src/huffman.py: class HuffmanEncoding.                         *)
(*                                                                         *)
(* One session is modelled: an object A is constructed from a source text  *)
(* (frequency table, priority-queue merge loop, code table), A.encoding()  *)
(* is called, then an object B is constructed from an encoded text and a   *)
(* root (either A's own output or another stream/node), and B.encoding()   *)
(* is called.  Nodes are Python objects; they live in the arena `nodes`    *)
(* and are referred to by their index, 0 standing for None.                *)
(***************************************************************************)
EXTENDS Integers, Sequences, FiniteSets, TLC

\* ------------------------------------------------------------- bounds
MaxLen == 7         \* longest source text
NumSymbols == 4     \* size of the alphabet the source text is drawn from
MaxStream == 2      \* longest free-form bit string handed to the decoder

AllSymbols == <<"a", "b", "c", "d", "e", "f">>
Symbols == {AllSymbols[i] : i \in 1..NumSymbols}
Bits == {"0", "1"}

\* Python's None, for a char, a node reference and a text.
NoChar == "None"
NoNode == 0
NoText == <<"None">>

\* The code touches a symbol only through dict lookup and equality, so source
\* texts are taken up to a renaming of the symbols: the first symbol of a text
\* is AllSymbols[1], and each new symbol is the next one of AllSymbols.
NumDistinct(s) == Cardinality({s[i] : i \in 1..Len(s)})
SmallerOf(a, b) == IF a <= b THEN a ELSE b

RECURSIVE TextsOfLen(_)
TextsOfLen(k) ==
  IF k = 0 THEN {<<>>}
  ELSE UNION {{Append(t, AllSymbols[j]) :
                 j \in 1..SmallerOf(NumSymbols, NumDistinct(t) + 1)} :
              t \in TextsOfLen(k - 1)}

Texts(n) == UNION {TextsOfLen(k) : k \in 0..n}
BitStrings(n) == UNION {[1..k -> Bits] : k \in 0..n}
Prefixes(s) == {SubSeq(s, 1, k) : k \in 0..Len(s)}

VARIABLES pc, src, freq_table, pending, nodes, pq, merges,
          objA, encA, objB, cursor, bitpos, encB, raised

vars == <<pc, src, freq_table, pending, nodes, pq, merges,
          objA, encA, objB, cursor, bitpos, encB, raised>>

\* ------------------------------------------------------------- Node
\* Node.__init__(freq, char=None, left=None, right=None)
Node(freq, char, left, right) ==
  [char |-> char, freq |-> freq, left |-> left, right |-> right]

\* Node.is_leaf
is_leaf(n) == n.char # NoChar

\* ------------------------------------------------------------- frequency table
\* freq_table after the counting loop: one key per distinct char.
FreqTable(s) ==
  [c \in {s[i] : i \in 1..Len(s)} |-> Cardinality({i \in 1..Len(s) : s[i] = c})]

\* freq_table.items() enumerates keys in insertion order, the order of first
\* occurrence in the source.
RECURSIVE KeysInOrder(_)
KeysInOrder(s) ==
  IF s = <<>> THEN <<>>
  ELSE LET front == KeysInOrder(SubSeq(s, 1, Len(s) - 1))
           c == s[Len(s)]
       IN IF \E i \in 1..Len(front) : front[i] = c THEN front ELSE Append(front, c)

\* ------------------------------------------------------------- priority queue
\* a queue that hands out the maximum
DelMaxCandidates(ns, q) ==
  {n \in q : \A m \in q : ns[n].freq >= ns[m].freq}

\* a queue that ignores the key: any node may come out
DelAnyCandidates(ns, q) ==
  {n \in q : TRUE}

\* MinPQ.del_min: any node of minimum frequency may come out (the order among
\* equal keys is the queue's own business).
DelMinCandidates(ns, q) ==
  {n \in q : \A m \in q : ns[n].freq <= ns[m].freq}

\* a merge that forgets the right child's frequency
MergedNodeLeftFreq(ns, left, right) ==
  Node(ns[left].freq, NoChar, left, right)

\* merged_node = Node(left.freq + right.freq, left=left, right=right)
MergedNode(ns, left, right) ==
  Node(ns[left].freq + ns[right].freq, NoChar, left, right)

\* ------------------------------------------------------------- code table
\* dict.update: entries of the argument override those already present.
DictUpdate(d, e) ==
  [c \in DOMAIN d \cup DOMAIN e |-> IF c \in DOMAIN e THEN e[c] ELSE d[c]]

EmptyDict == [c \in {} |-> <<>>]

\* a traversal that extends the prefix with '0' on both sides
RECURSIVE BuildDictionarySameBit(_, _, _)
BuildDictionarySameBit(ns, node, prefix) ==
  IF is_leaf(ns[node])
  THEN [c \in {ns[node].char} |-> prefix]
  ELSE DictUpdate(DictUpdate(EmptyDict,
                             BuildDictionarySameBit(ns, ns[node].left, Append(prefix, "0"))),
                  BuildDictionarySameBit(ns, ns[node].right, Append(prefix, "0")))

\* _build_dictionary(node, prefix), for node # None
RECURSIVE BuildDictionary(_, _, _)
BuildDictionary(ns, node, prefix) ==
  IF is_leaf(ns[node])
  THEN [c \in {ns[node].char} |-> prefix]
  ELSE DictUpdate(DictUpdate(EmptyDict,
                             BuildDictionary(ns, ns[node].left, Append(prefix, "0"))),
                  BuildDictionary(ns, ns[node].right, Append(prefix, "1")))

\* ------------------------------------------------------------- encoder
\* ''.join(self.codes[char] for char in self.source_text): KeyError on the
\* first char that is no key of codes.
RECURSIVE JoinCodes(_, _)
JoinCodes(codes, text) ==
  IF text = <<>> THEN <<>>
  ELSE codes[Head(text)] \o JoinCodes(codes, Tail(text))

EncodingResult(obj) ==
  IF obj.source_text = NoText
  THEN [status |-> "ok", text |-> <<>>]
  ELSE IF \E i \in 1..Len(obj.source_text) : obj.source_text[i] \notin DOMAIN obj.codes
       THEN [status |-> "KeyError", text |-> <<>>]
       ELSE [status |-> "ok", text |-> JoinCodes(obj.codes, obj.source_text)]

\* ------------------------------------------------------------- decoder
\* _decode_encoded_text: the loop from bit i on, with the cursor at `node` and
\* `out` decoded so far.  node.left / node.right of a childless node is None
\* and None.is_leaf() raises AttributeError.
RECURSIVE DecodeFrom(_, _, _, _, _, _)
DecodeFrom(ns, root, encoded_text, i, node, out) ==
  IF i > Len(encoded_text)
  THEN [status |-> "ok", text |-> out, node |-> node, at |-> i]
  ELSE LET next == IF encoded_text[i] = "0" THEN ns[node].left ELSE ns[node].right
       IN IF next = NoNode
          THEN [status |-> "AttributeError", text |-> out, node |-> node, at |-> i]
          ELSE IF is_leaf(ns[next])
               THEN DecodeFrom(ns, root, encoded_text, i + 1, root,
                               Append(out, ns[next].char))
               ELSE DecodeFrom(ns, root, encoded_text, i + 1, next, out)

DecodeEncodedText(ns, encoded_text, root) ==
  DecodeFrom(ns, root, encoded_text, 1, root, <<>>)

\* ------------------------------------------------------------- state machine
NewObject(source_text, encoded_text) ==
  [root_node |-> NoNode, encoded_text |-> encoded_text,
   source_text |-> source_text, codes |-> EmptyDict]

Init ==
  /\ src \in Texts(MaxLen)
  /\ pc = "new"
  /\ freq_table = EmptyDict
  /\ pending = <<>>
  /\ nodes = <<>>
  /\ pq = {}
  /\ merges = 0
  /\ objA = NewObject(NoText, NoText)
  /\ encA = <<>>
  /\ objB = NewObject(NoText, NoText)
  /\ cursor = NoNode
  /\ bitpos = 0
  /\ encB = <<>>
  /\ raised = "none"

\* HuffmanEncoding(src=T): the field initialisation and the counting loop of
\* _build_huffman_tree, up to the creation of the empty queue.
ConstructFromSource ==
  /\ pc = "new"
  /\ objA' = NewObject(src, NoText)
  /\ freq_table' = FreqTable(src)
  /\ pending' = KeysInOrder(src)
  /\ pq' = {}
  /\ pc' = "build"
  /\ UNCHANGED <<src, nodes, merges, encA, objB, cursor, bitpos, encB, raised>>

\* one iteration of: for char, freq in freq_table.items(): pq.insert(Node(freq, char))
InsertLeaf ==
  /\ pc = "build"
  /\ pending # <<>>
  /\ nodes' = Append(nodes, Node(freq_table[Head(pending)], Head(pending), NoNode, NoNode))
  /\ pq' = pq \cup {Len(nodes) + 1}
  /\ pending' = Tail(pending)
  /\ UNCHANGED <<pc, src, freq_table, merges, objA, encA, objB, cursor, bitpos, encB, raised>>

\* one iteration of: while len(pq) > 1
Merge ==
  /\ pc = "build"
  /\ pending = <<>>
  /\ Cardinality(pq) > 1
  /\ \E left \in DelMinCandidates(nodes, pq) :
       \E right \in DelMinCandidates(nodes, pq \ {left}) :
         /\ nodes' = Append(nodes, MergedNode(nodes, left, right))
         /\ pq' = (pq \ {left, right}) \cup {Len(nodes) + 1}
  /\ merges' = merges + 1
  /\ UNCHANGED <<pc, src, freq_table, pending, objA, encA, objB, cursor, bitpos, encB, raised>>

\* self.root_node = pq.del_min(); self.codes = self._build_dictionary(self.root_node)
TakeRoot ==
  /\ pc = "build"
  /\ pending = <<>>
  /\ Cardinality(pq) = 1
  /\ \E root \in DelMinCandidates(nodes, pq) :
       /\ pq' = pq \ {root}
       /\ objA' = [objA EXCEPT !.root_node = root,
                               !.codes = BuildDictionary(nodes, root, <<>>)]
  /\ pc' = "built"
  /\ UNCHANGED <<src, freq_table, pending, nodes, merges, encA, objB, cursor, bitpos, encB, raised>>

\* The same two statements on an empty queue (empty source).  What del_min
\* does on an empty queue is the queue's: it raises its own error, or it
\* returns None, and then _build_dictionary(None) falls back to
\* self.root_node, which is None, and None.is_leaf() raises AttributeError.
TakeRootEmpty ==
  /\ pc = "build"
  /\ pending = <<>>
  /\ pq = {}
  /\ raised' \in {"PQError", "AttributeError"}
  /\ pc' = "raisedA"
  /\ UNCHANGED <<src, freq_table, pending, nodes, pq, merges, objA, encA, objB, cursor, bitpos, encB>>

\* A.encoding()
EncodingA ==
  /\ pc = "built"
  /\ LET r == EncodingResult(objA)
     IN /\ encA' = r.text
        /\ raised' = IF r.status = "ok" THEN "none" ELSE r.status
        /\ pc' = IF r.status = "ok" THEN "encoded" ELSE "raisedA"
  /\ UNCHANGED <<src, freq_table, pending, nodes, pq, merges, objA, objB, cursor, bitpos, encB>>

\* HuffmanEncoding(encoded_text=e, root=r): e is A's encoding, a prefix of it,
\* or any short bit string; r is None, A's root, or the first leaf built (a
\* tree that is a single leaf).
ConstructFromEncoded ==
  /\ pc = "encoded"
  /\ \E e \in Prefixes(encA) \cup BitStrings(MaxStream), r \in {NoNode, objA.root_node, 1} :
       IF r = NoNode
       THEN /\ objB' = NewObject(NoText, e)
            /\ cursor' = NoNode
            /\ bitpos' = 0
            /\ raised' = "none"
            /\ pc' = "decoded"
       ELSE LET d == DecodeEncodedText(nodes, e, r)
            IN /\ cursor' = d.node
               /\ bitpos' = d.at
               /\ IF d.status = "ok"
                  THEN /\ objB' = [NewObject(d.text, e) EXCEPT !.root_node = r]
                       /\ raised' = "none"
                       /\ pc' = "decoded"
                  ELSE /\ objB' = [NewObject(NoText, e) EXCEPT !.root_node = r]
                       /\ raised' = d.status
                       /\ pc' = "raisedB"
  /\ UNCHANGED <<src, freq_table, pending, nodes, pq, merges, objA, encA, encB>>

\* B.encoding()
EncodingB ==
  /\ pc = "decoded"
  /\ LET r == EncodingResult(objB)
     IN /\ encB' = r.text
        /\ raised' = IF r.status = "ok" THEN "none" ELSE r.status
        /\ pc' = IF r.status = "ok" THEN "done" ELSE "raisedE"
  /\ UNCHANGED <<src, freq_table, pending, nodes, pq, merges, objA, encA, objB, cursor, bitpos>>

Next ==
  \/ ConstructFromSource
  \/ InsertLeaf
  \/ Merge
  \/ TakeRoot
  \/ TakeRootEmpty
  \/ EncodingA
  \/ ConstructFromEncoded
  \/ EncodingB

Spec == Init /\ [][Next]_vars

\* The encoding side alone: construction from a source text and A.encoding().
NextEncode ==
  \/ ConstructFromSource
  \/ InsertLeaf
  \/ Merge
  \/ TakeRoot
  \/ TakeRootEmpty
  \/ EncodingA

SpecEncode == Init /\ [][NextEncode]_vars

\* ------------------------------------------------------------- helpers of the properties
Distinct(s) == {s[i] : i \in 1..Len(s)}
Count(s, c) == Cardinality({i \in 1..Len(s) : s[i] = c})
IsPrefix(p, s) == Len(p) <= Len(s) /\ SubSeq(s, 1, Len(p)) = p

\* object A exists: its constructor returned
Built == pc \in {"built", "encoded", "decoded", "raisedB", "done", "raisedE"}
\* the constructor of B has run (to its return or to an exception)
DecodeRan == pc \in {"decoded", "raisedB"}

RECURSIVE SumOver(_, _)
SumOver(f, S) ==
  IF S = {} THEN 0
  ELSE LET c == CHOOSE x \in S : TRUE IN f[c] + SumOver(f, S \ {c})

\* total encoded length under a code table: sum of count times code length
EncodedLength(ft, codes) ==
  SumOver([c \in DOMAIN ft |-> ft[c] * Len(codes[c])], DOMAIN ft)

Min(S) == CHOOSE x \in S : \A y \in S : x <= y

\* least total encoded length over all full binary trees whose leaves are S:
\* the root of such a tree splits S into two non-empty parts, and every leaf
\* below the root is one bit deeper than in its part's own tree.
RECURSIVE OptCost(_, _)
OptCost(ft, S) ==
  IF Cardinality(S) <= 1 THEN 0
  ELSE LET pivot == CHOOSE x \in S : TRUE
       IN SumOver(ft, S) +
          Min({OptCost(ft, A) + OptCost(ft, S \ A) :
                 A \in {X \in SUBSET S : pivot \in X /\ X # S}})

\* ------------------------------------------------------------- C1
\* C1: round trip.  For every non-empty source text, decoding A's encoding
\* against A's root returns normally with the source text.
RoundTripCase ==
  /\ DecodeRan
  /\ src # <<>>
  /\ objB.encoded_text = encA
  /\ objB.root_node = objA.root_node

C1_RoundTrip ==
  RoundTripCase => (pc = "decoded" /\ objB.source_text = src)

\* ------------------------------------------------------------- C2
\* C2: the code table of a tree built from a non-empty source has exactly one
\* code per distinct symbol of the source, and no symbol's code is a prefix of
\* a different symbol's code.
C2_PrefixFree ==
  Built =>
    /\ DOMAIN objA.codes = Distinct(src)
    /\ \A x \in DOMAIN objA.codes : \A y \in DOMAIN objA.codes :
         x # y => ~IsPrefix(objA.codes[x], objA.codes[y])

C2_Witness ==
  /\ pc = "built"
  /\ Cardinality(DOMAIN objA.codes) >= 3
  /\ \E x \in DOMAIN objA.codes : \E y \in DOMAIN objA.codes :
       Len(objA.codes[x]) < Len(objA.codes[y])

\* ------------------------------------------------------------- C3
\* C3: every symbol's code has at least one bit, also with one distinct
\* symbol, so n copies of one symbol encode to n bits.
C3_NonEmptyCodes ==
  /\ Built => \A c \in DOMAIN objA.codes : Len(objA.codes[c]) >= 1
  /\ (pc = "encoded" /\ Cardinality(Distinct(src)) = 1) => Len(encA) = Len(src)

\* ------------------------------------------------------------- C4
\* C4: when the decoder runs out of bits with its cursor away from the root,
\* the constructor raises MalformedStreamError and returns no decoded text.
MidCode ==
  /\ DecodeRan
  /\ objB.root_node # NoNode
  /\ bitpos = Len(objB.encoded_text) + 1
  /\ cursor # objB.root_node

C4_MalformedStream ==
  MidCode => (pc = "raisedB" /\ raised = "MalformedStreamError")

\* ------------------------------------------------------------- C5
\* C5: an empty source text ends the constructor with EmptyInputError.
C5_EmptyInput ==
  (src = <<>> /\ pc \notin {"new", "build"})
    => (pc = "raisedA" /\ raised = "EmptyInputError")

\* ------------------------------------------------------------- C6
\* C6: a bit that directs the decoder to a missing child ends the
\* constructor with InvalidNavigationError at that bit.
PastLeaf ==
  /\ DecodeRan
  /\ objB.root_node # NoNode
  /\ bitpos <= Len(objB.encoded_text)
  /\ (IF objB.encoded_text[bitpos] = "0"
      THEN nodes[cursor].left ELSE nodes[cursor].right) = NoNode

C6_InvalidNavigation ==
  PastLeaf => (pc = "raisedB" /\ raised = "InvalidNavigationError")

\* ------------------------------------------------------------- C7
\* C7: with at least two distinct symbols, a symbol that occurs more often
\* than another has a code no longer than the other's, whichever way the
\* queue resolves equal frequencies.
C7_CompressionSanity ==
  (Built /\ Cardinality(Distinct(src)) >= 2) =>
    \A x \in Distinct(src) : \A y \in Distinct(src) :
      Count(src, x) > Count(src, y) => Len(objA.codes[x]) <= Len(objA.codes[y])

C7_Witness ==
  /\ pc = "built"
  /\ Cardinality(Distinct(src)) >= 3
  /\ \E x \in Distinct(src) : \E y \in Distinct(src) :
       /\ Count(src, x) > Count(src, y)
       /\ Len(objA.codes[x]) < Len(objA.codes[y])
  /\ \E x \in Distinct(src) : \E y \in Distinct(src) :
       x # y /\ Count(src, x) = Count(src, y)

\* ------------------------------------------------------------- C8
\* C8: with at least two distinct symbols, the total encoded length under the
\* code table is the least that any full binary tree over the same frequency
\* table gives, whichever way the queue resolves equal frequencies.
C8_Optimality ==
  (pc = "built" /\ Cardinality(Distinct(src)) >= 2) =>
    EncodedLength(freq_table, objA.codes) = OptCost(freq_table, DOMAIN freq_table)

\* a built tree over four symbols where the queue had a tie to resolve
C8_Witness ==
  /\ pc = "built"
  /\ Cardinality(Distinct(src)) >= 4
  /\ \E x \in Distinct(src) : \E y \in Distinct(src) :
       x # y /\ Count(src, x) = Count(src, y)
  /\ \E x \in Distinct(src) : Len(objA.codes[x]) = 3

\* ------------------------------------------------------------- C9
\* C9: encoding() on an object built from (encoded_text, root) whose decoded
\* text is non-empty returns the encoded text and raises nothing.
C9_EncodingOfDecoded ==
  (pc \in {"done", "raisedE"} /\ objB.source_text # NoText /\ objB.source_text # <<>>)
    => (pc = "done" /\ encB = objB.encoded_text)

\* ------------------------------------------------------------- C10
Parents(n) == {p \in 1..Len(nodes) : nodes[p].left = n \/ nodes[p].right = n}
LeafIds == {n \in 1..Len(nodes) : is_leaf(nodes[n])}
\* the roots held: the queue during the loop, the root once it is taken
Roots == IF pc = "build" THEN pq ELSE {objA.root_node}

RECURSIVE LeavesUnder(_)
LeavesUnder(n) ==
  IF is_leaf(nodes[n]) THEN {n}
  ELSE LeavesUnder(nodes[n].left) \cup LeavesUnder(nodes[n].right)

\* C10: after the initial inserts and after every merge, the queue holds the
\* roots of disjoint subtrees whose leaves are exactly the distinct symbols,
\* each once with its count; an internal node has two children and the sum of
\* their frequencies; queue size plus merges is the number k of distinct
\* symbols, so the loop ends after k-1 merges, with one root of frequency
\* Len(src).
C10_TreeInvariant ==
  ((pc = "build" /\ pending = <<>>) \/ pc = "built") =>
    /\ \A n \in 1..Len(nodes) :
         /\ (n \in Roots) => Parents(n) = {}
         /\ (n \notin Roots) => Cardinality(Parents(n)) = 1
         /\ ~is_leaf(nodes[n]) =>
              /\ nodes[n].left # NoNode /\ nodes[n].right # NoNode
              /\ nodes[n].left # nodes[n].right
              /\ nodes[n].freq = nodes[nodes[n].left].freq + nodes[nodes[n].right].freq
         /\ is_leaf(nodes[n]) =>
              /\ nodes[n].left = NoNode /\ nodes[n].right = NoNode
              /\ nodes[n].freq = Count(src, nodes[n].char)
    /\ UNION {LeavesUnder(r) : r \in Roots} = LeafIds
    /\ {nodes[n].char : n \in LeafIds} = Distinct(src)
    /\ Cardinality(LeafIds) = Cardinality(Distinct(src))
    /\ pc = "build" => Cardinality(pq) + merges = Cardinality(Distinct(src))
    /\ pc = "built" =>
         /\ merges = Cardinality(Distinct(src)) - 1
         /\ pq = {}
         /\ nodes[objA.root_node].freq = Len(src)

C10_Witness ==
  /\ pc = "built"
  /\ merges = 3
  /\ nodes[objA.root_node].freq = MaxLen

====
